---- MODULE Spec2Model ----
(***************************************************************************)
(* Model of src/src/App.jsx, the CSV table formatter: the App component's   *)
(* six state cells, its handlers (upload, parse completion, parse error,    *)
(* toggle, rename, drag-reorder, reset, the two exports) and the pure       *)
(* helpers they call (formatValue, getRawValue, sortHeaders,                *)
(* calculateMedianWeeklyRent, generateTableData).                           *)
(*                                                                          *)
(* JavaScript values are modelled as follows.                               *)
(*   - a string is a sequence of one-character strings (Str);               *)
(*   - a number is an exact decimal m / 10^e in normal form (Num), or NaN;  *)
(*   - undefined is Undefined;                                              *)
(*   - an object is a sequence of [k, v] entries in the order Object.keys   *)
(*     lists them: canonical array-index keys first, ascending, then the    *)
(*     other keys in insertion order;                                       *)
(*   - a property name (column name, display name) is a TLA+ string whose   *)
(*     characters are given by Spell.                                       *)
(* Number strings with an exponent part or "Infinity" are outside the       *)
(* alphabets used here, and toLocaleString is the en-US convention the      *)
(* source's comments assume ("$675,000").                                   *)
(***************************************************************************)
EXTENDS Integers, Sequences, FiniteSets, TLC

VARIABLES csvData, headers, selectedColumns, columnRenames, tableData, fileName,
          parsing, download, call, ret

vars == <<csvData, headers, selectedColumns, columnRenames, tableData, fileName,
          parsing, download, call, ret>>

session == <<csvData, headers, selectedColumns, columnRenames, tableData, fileName>>

-----------------------------------------------------------------------------
(* Sequence helpers (Array.prototype.filter / includes / map).              *)

RECURSIVE SelectSeqBy(_, _)
Range(s) == {s[i] : i \in 1..Len(s)}

Includes(s, x) == \E i \in 1..Len(s) : s[i] = x

IsDistinct(s) == \A i, j \in 1..Len(s) : i # j => s[i] # s[j]

SelectSeqBy(s, S) ==
    IF s = <<>> THEN <<>>
    ELSE IF Head(s) \in S THEN <<Head(s)>> \o SelectSeqBy(Tail(s), S)
         ELSE SelectSeqBy(Tail(s), S)

Without(s, x) == SelectSeqBy(s, Range(s) \ {x})

-----------------------------------------------------------------------------
(* JavaScript values.                                                        *)

RECURSIVE Pow10(_)
Pow10(k) == IF k = 0 THEN 1 ELSE 10 * Pow10(k - 1)

Abs(i) == IF i < 0 THEN -i ELSE i

Str(s) == [t |-> "string", s |-> s, m |-> 0, e |-> 0]

RECURSIVE Normal(_, _)
Normal(m, e) ==
    IF m = 0 THEN <<0, 0>>
    ELSE IF e > 0 /\ m % 10 = 0 THEN Normal(m \div 10, e - 1)
    ELSE <<m, e>>

\* the number m / 10^e
Num(m, e) == [t |-> "number", s |-> <<>>, m |-> Normal(m, e)[1], e |-> Normal(m, e)[2]]

NaN == [t |-> "NaN", s |-> <<>>, m |-> 0, e |-> 0]

Undefined == [t |-> "undefined", s |-> <<>>, m |-> 0, e |-> 0]

IsNumber(v) == v.t \in {"number", "NaN"}

IsNaN(v) == v.t = "NaN"

\* !v
Falsy(v) ==
    \/ v.t = "undefined"
    \/ v.t = "NaN"
    \/ v.t = "string" /\ v.s = <<>>
    \/ v.t = "number" /\ v.m = 0

Digit == {"0", "1", "2", "3", "4", "5", "6", "7", "8", "9"}

DigitVal(c) ==
    CASE c = "0" -> 0 [] c = "1" -> 1 [] c = "2" -> 2 [] c = "3" -> 3 [] c = "4" -> 4
      [] c = "5" -> 5 [] c = "6" -> 6 [] c = "7" -> 7 [] c = "8" -> 8 [] c = "9" -> 9

DigitChar(d) == <<"0", "1", "2", "3", "4", "5", "6", "7", "8", "9">>[d + 1]

\* decimal digits of a natural number, at least `width` of them
RECURSIVE DigitsOf(_, _)
DigitsOf(n, width) ==
    IF n < 10 /\ width <= 1 THEN <<DigitChar(n)>>
    ELSE DigitsOf(n \div 10, width - 1) \o <<DigitChar(n % 10)>>

RECURSIVE DigitRun(_)
\* length of the leading run of digits of s
DigitRun(s) ==
    IF s # <<>> /\ Head(s) \in Digit THEN 1 + DigitRun(Tail(s)) ELSE 0

RECURSIVE NatOf(_)
NatOf(ds) ==
    IF ds = <<>> THEN 0 ELSE 10 * NatOf(SubSeq(ds, 1, Len(ds) - 1)) + DigitVal(ds[Len(ds)])

RECURSIVE TrimLeft(_)
TrimLeft(s) == IF s # <<>> /\ Head(s) = " " THEN TrimLeft(Tail(s)) ELSE s

\* x rounded to the nearest integer of |a| / 10^k, ties away from zero
RoundDiv(a, k) == (a + (Pow10(k) \div 2)) \div Pow10(k)

\* parseFloat(v): leading blanks, an optional sign, then the longest prefix
\* digits [. digits] or . digits; NaN when there is no digit. A number argument
\* is converted to its string and parsed back, which gives the number itself.
ParseFloatStr(s) ==
    LET t0    == TrimLeft(s)
        neg   == t0 # <<>> /\ Head(t0) = "-"
        body  == IF t0 # <<>> /\ Head(t0) \in {"-", "+"} THEN Tail(t0) ELSE t0
        il    == DigitRun(body)
        rest  == SubSeq(body, il + 1, Len(body))
        fl    == IF rest # <<>> /\ Head(rest) = "." THEN DigitRun(Tail(rest)) ELSE 0
        ip    == NatOf(SubSeq(body, 1, il))
        fp    == NatOf(SubSeq(rest, 2, fl + 1))
        mag   == ip * Pow10(fl) + fp
    IN  IF il = 0 /\ fl = 0 THEN NaN
        ELSE Num(IF neg THEN -mag ELSE mag, fl)

parseFloat(v) ==
    CASE v.t = "string" -> ParseFloatStr(v.s)
      [] v.t = "number" -> v
      [] OTHER -> NaN

\* x * k and x / 100 on exact decimals
Times(x, k) == Num(x.m * k, x.e)

DivideBy100(x) == Num(x.m, x.e + 2)

\* Number.prototype.toFixed(2): the sign first, then the magnitude rounded to
\* two decimals (ties to the larger), always two fraction digits.
toFixed2(x) ==
    LET a      == Abs(x.m)
        scaled == IF x.e <= 2 THEN a * Pow10(2 - x.e) ELSE RoundDiv(a, x.e - 2)
    IN  (IF x.m < 0 THEN <<"-">> ELSE <<>>)
        \o DigitsOf(scaled \div 100, 1) \o <<".">> \o DigitsOf(scaled % 100, 2)

\* thousands grouping of a digit string
RECURSIVE Grouped(_)
Grouped(ds) ==
    IF Len(ds) <= 3 THEN ds
    ELSE Grouped(SubSeq(ds, 1, Len(ds) - 3)) \o <<",">> \o SubSeq(ds, Len(ds) - 2, Len(ds))

RECURSIVE DropTrailingZeros(_)
DropTrailingZeros(ds) ==
    IF ds # <<>> /\ ds[Len(ds)] = "0" THEN DropTrailingZeros(SubSeq(ds, 1, Len(ds) - 1))
    ELSE ds

\* Number.prototype.toLocaleString(): grouped integer part, at most three
\* fraction digits (rounded, ties away from zero), trailing zeros dropped.
toLocaleString(x) ==
    LET a      == Abs(x.m)
        fd     == IF x.e <= 3 THEN x.e ELSE 3
        scaled == IF x.e <= 3 THEN a ELSE RoundDiv(a, x.e - 3)
        ip     == DigitsOf(scaled \div Pow10(fd), 1)
        fr     == IF fd = 0 THEN <<>> ELSE DropTrailingZeros(DigitsOf(scaled % Pow10(fd), fd))
    IN  (IF x.m < 0 THEN <<"-">> ELSE <<>>)
        \o Grouped(ip) \o (IF fr = <<>> THEN <<>> ELSE <<".">> \o fr)

\* value.toString() of a string or a number (plain decimal notation)
toString(v) ==
    CASE v.t = "string" -> v.s
      [] v.t = "number" ->
            (IF v.m < 0 THEN <<"-">> ELSE <<>>)
            \o DigitsOf(Abs(v.m) \div Pow10(v.e), 1)
            \o (IF v.e = 0 THEN <<>> ELSE <<".">> \o DigitsOf(Abs(v.m) % Pow10(v.e), v.e))
      [] OTHER -> <<"N", "a", "N">>

\* s.replace(/[...]/g, ''): every character of `chars` removed
RemoveAll(s, chars) == SelectSeq(s, LAMBDA c : c \notin chars)

\* s.replace('%', ''): the first occurrence removed
RECURSIVE RemoveFirst(_, _)
RemoveFirst(s, c) ==
    IF s = <<>> THEN <<>>
    ELSE IF Head(s) = c THEN Tail(s)
    ELSE <<Head(s)>> \o RemoveFirst(Tail(s), c)

-----------------------------------------------------------------------------
(* Property names and objects.                                               *)

\* the characters of the names the model uses
Spell(name) ==
    CASE name = "Suburb" -> <<"S", "u", "b", "u", "r", "b">>
      [] name = "State" -> <<"S", "t", "a", "t", "e">>
      [] name = "Owner Occupier" -> <<"O", "w", "n", "e", "r", " ", "O", "c", "c", "u", "p", "i", "e", "r">>
      [] name = "Vacancy Rate" -> <<"V", "a", "c", "a", "n", "c", "y", " ", "R", "a", "t", "e">>
      [] name = "Growth (12MTHS)" -> <<"G", "r", "o", "w", "t", "h", " ", "(", "1", "2", "M", "T", "H", "S", ")">>
      [] name = "5-Year Sale Price Growth" -> <<"5", "-", "Y", "e", "a", "r", " ", "S", "a", "l", "e", " ", "P", "r", "i", "c", "e", " ", "G", "r", "o", "w", "t", "h">>
      [] name = "10-Year Sale Price Growth" -> <<"1", "0", "-", "Y", "e", "a", "r", " ", "S", "a", "l", "e", " ", "P", "r", "i", "c", "e", " ", "G", "r", "o", "w", "t", "h">>
      [] name = "DOM" -> <<"D", "O", "M">>
      [] name = "Median Weekly Rent" -> <<"M", "e", "d", "i", "a", "n", " ", "W", "e", "e", "k", "l", "y", " ", "R", "e", "n", "t">>
      [] name = "Suburb $ Median" -> <<"S", "u", "b", "u", "r", "b", " ", "$", " ", "M", "e", "d", "i", "a", "n">>
      [] name = "Rental Yield" -> <<"R", "e", "n", "t", "a", "l", " ", "Y", "i", "e", "l", "d">>
      [] name = "Population" -> <<"P", "o", "p", "u", "l", "a", "t", "i", "o", "n">>
      [] name = "Median Income" -> <<"M", "e", "d", "i", "a", "n", " ", "I", "n", "c", "o", "m", "e">>
      [] name = "Alpha" -> <<"A", "l", "p", "h", "a">>
      [] name = "Zeta" -> <<"Z", "e", "t", "a">>
      [] name = "alpha" -> <<"a", "l", "p", "h", "a">>
      [] name = "Price" -> <<"P", "r", "i", "c", "e">>
      [] name = "" -> <<>>
      [] name = "1" -> <<"1">>
      [] name = "2" -> <<"2">>
      [] name = "10" -> <<"1", "0">>

\* UTF-16 code units of those characters
CharCode(c) ==
    CASE c = " " -> 32
      [] c = "$" -> 36
      [] c = "(" -> 40
      [] c = ")" -> 41
      [] c = "-" -> 45
      [] c = "0" -> 48
      [] c = "1" -> 49
      [] c = "2" -> 50
      [] c = "5" -> 53
      [] c = "A" -> 65
      [] c = "D" -> 68
      [] c = "G" -> 71
      [] c = "H" -> 72
      [] c = "I" -> 73
      [] c = "M" -> 77
      [] c = "O" -> 79
      [] c = "P" -> 80
      [] c = "R" -> 82
      [] c = "S" -> 83
      [] c = "T" -> 84
      [] c = "V" -> 86
      [] c = "W" -> 87
      [] c = "Y" -> 89
      [] c = "Z" -> 90
      [] c = "a" -> 97
      [] c = "b" -> 98
      [] c = "c" -> 99
      [] c = "d" -> 100
      [] c = "e" -> 101
      [] c = "h" -> 104
      [] c = "i" -> 105
      [] c = "k" -> 107
      [] c = "l" -> 108
      [] c = "m" -> 109
      [] c = "n" -> 110
      [] c = "o" -> 111
      [] c = "p" -> 112
      [] c = "r" -> 114
      [] c = "t" -> 116
      [] c = "u" -> 117
      [] c = "w" -> 119
      [] c = "y" -> 121

\* a < b in the order Array.prototype.sort() uses for strings
RECURSIVE CodeUnitLess(_, _)
CodeUnitLess(a, b) ==
    IF b = <<>> THEN FALSE
    ELSE IF a = <<>> THEN TRUE
    ELSE IF CharCode(Head(a)) # CharCode(Head(b)) THEN CharCode(Head(a)) < CharCode(Head(b))
    ELSE CodeUnitLess(Tail(a), Tail(b))

NameLess(a, b) == CodeUnitLess(Spell(a), Spell(b))

\* Array.prototype.sort() of an array of names
RECURSIVE Insert(_, _)
Insert(x, sorted) ==
    IF sorted = <<>> THEN <<x>>
    ELSE IF NameLess(x, Head(sorted)) THEN <<x>> \o sorted
    ELSE <<Head(sorted)>> \o Insert(x, Tail(sorted))

RECURSIVE Sort(_)
Sort(s) == IF s = <<>> THEN <<>> ELSE Insert(Head(s), Sort(Tail(s)))

\* a canonical array index ("0", "7", "10", not "" or "07"): such keys are
\* listed first by Object.keys, in ascending numeric order
IsArrayIndex(name) ==
    LET cs == Spell(name)
    IN  /\ cs # <<>>
        /\ \A i \in 1..Len(cs) : cs[i] \in Digit
        /\ (Len(cs) > 1 => cs[1] # "0")

IndexOf(name) == NatOf(Spell(name))

Keys(obj) == [i \in 1..Len(obj) |-> obj[i].k]

Has(obj, k) == \E i \in 1..Len(obj) : obj[i].k = k

\* obj[k]
Get(obj, k) ==
    IF Has(obj, k) THEN obj[CHOOSE i \in 1..Len(obj) : obj[i].k = k].v ELSE Undefined

\* where a new key k goes in obj's key order
InsertAt(obj, k) ==
    IF IsArrayIndex(k)
    THEN Cardinality({i \in 1..Len(obj) :
                        IsArrayIndex(obj[i].k) /\ IndexOf(obj[i].k) < IndexOf(k)})
    ELSE Len(obj)

\* obj[k] = v
Put(obj, k, v) ==
    IF Has(obj, k)
    THEN [i \in 1..Len(obj) |-> IF obj[i].k = k THEN [k |-> k, v |-> v] ELSE obj[i]]
    ELSE SubSeq(obj, 1, InsertAt(obj, k)) \o <<[k |-> k, v |-> v]>>
         \o SubSeq(obj, InsertAt(obj, k) + 1, Len(obj))

\* an object literal built by assigning the entries in order
RECURSIVE ObjectOf(_)
ObjectOf(entries) ==
    IF entries = <<>> THEN <<>>
    ELSE Put(ObjectOf(SubSeq(entries, 1, Len(entries) - 1)),
             entries[Len(entries)].k, entries[Len(entries)].v)

-----------------------------------------------------------------------------
(* The component's constants.                                                *)

priorityColumns ==
    <<"Suburb", "State", "Owner Occupier", "Vacancy Rate", "Growth (12MTHS)",
      "5-Year Sale Price Growth", "10-Year Sale Price Growth", "DOM",
      "Median Weekly Rent", "Suburb $ Median", "Rental Yield">>

percentageFields ==
    <<"Growth (12MTHS)", "Growth (10Y Ave)", "Rental Yield", "Vacancy Rate",
      "Owner Occupier", "Social Housing", "Market Absorption", "IQR % Median",
      "Build. Approvals", "Pop. Growth (5Y)", "SA2 1-Year Population Growth",
      "SA2 3-Year Population Growth", "SA2 5-Year Population Growth",
      "SA2 10-Year Population Growth", "SA3 1-Year Population Growth",
      "SA3 3-Year Population Growth", "SA3 5-Year Population Growth",
      "SA3 10-Year Population Growth", "3-Year Median Sale Price CAGR",
      "5-Year Median Sale Price CAGR", "10-Year Median Sale Price CAGR",
      "3-Year Sale Price Growth", "5-Year Sale Price Growth",
      "10-Year Sale Price Growth", "12-Month Sale Price Growth">>

currencyFields == <<"Suburb $ Median", "Median Income", "Median Weekly Rent">>

numberFields ==
    <<"Population", "Property Count", "Total Property Count",
      "SA2 Estimated Resident Population", "Sales Volume", "Build. Approvals">>

-----------------------------------------------------------------------------
(* The pure helpers.                                                         *)

\* parseFloat(x) || 0
ParseFloatOrZero(v) == IF Falsy(parseFloat(v)) THEN Num(0, 0) ELSE parseFloat(v)

\* Math.round(p * y / 52) for p, y > 0: the nearest integer, ties upward
RoundedWeekly(p, y) ==
    LET a == p.m * y.m
        d == 52 * Pow10(p.e + y.e)
    IN  (2 * a + d) \div (2 * d)

\* the test of the yield dropped: only the price has to be positive
calculateMedianWeeklyRent_priceOnly(row) ==
    LET propertyPrice == ParseFloatOrZero(Get(row, "Suburb $ Median"))
        rentalYield   == ParseFloatOrZero(Get(row, "Rental Yield"))
    IN  IF propertyPrice.m > 0
        THEN Num(RoundedWeekly(propertyPrice, rentalYield), 0)
        ELSE Num(0, 0)

calculateMedianWeeklyRent(row) ==
    LET propertyPrice == ParseFloatOrZero(Get(row, "Suburb $ Median"))
        rentalYield   == ParseFloatOrZero(Get(row, "Rental Yield"))
    IN  IF propertyPrice.m > 0 /\ rentalYield.m > 0
        THEN Num(RoundedWeekly(propertyPrice, rentalYield), 0)
        ELSE Num(0, 0)

formatValue(value, fieldName) ==
    LET numValue == parseFloat(value)
    IN  IF Falsy(value) THEN Str(<<>>)
        ELSE IF IsNaN(numValue) THEN value
        ELSE IF Includes(percentageFields, fieldName)
             THEN Str(toFixed2(Times(numValue, 100)) \o <<"%">>)
        ELSE IF Includes(currencyFields, fieldName)
             THEN Str(<<"$">> \o toLocaleString(numValue))
        ELSE IF Includes(numberFields, fieldName)
             THEN Str(toLocaleString(numValue))
        ELSE value

\* the NaN default dropped: the parse result is returned as it is
ZeroIfNaN_unguarded(n) == n

\* isNaN(n) ? 0 : n
ZeroIfNaN(n) == IF IsNaN(n) THEN Num(0, 0) ELSE n

getRawValue(value, fieldName, originalColumn) ==
    IF Falsy(value) THEN Str(<<>>)
    ELSE IF originalColumn = "Median Weekly Rent"
         THEN ZeroIfNaN(ParseFloatStr(RemoveAll(toString(value), {"$", ","})))
    ELSE IF Includes(percentageFields, originalColumn)
         THEN LET percentNum == ParseFloatStr(RemoveFirst(toString(value), "%"))
              IN  IF IsNaN(percentNum) THEN Num(0, 0) ELSE DivideBy100(percentNum)
    ELSE IF Includes(currencyFields, originalColumn)
         THEN ZeroIfNaN(ParseFloatStr(RemoveAll(toString(value), {"$", ","})))
    ELSE IF Includes(numberFields, originalColumn)
         THEN ZeroIfNaN(ParseFloatStr(RemoveAll(toString(value), {","})))
    ELSE IF IsNaN(parseFloat(value)) THEN value ELSE parseFloat(value)

\* the trailing others.sort() dropped: the other columns stay in file order
sortHeaders_unsorted(hs) ==
    LET prioritySet    == Range(priorityColumns)
        priority       == SelectSeqBy(hs, prioritySet)
        others         == SelectSeqBy(hs, Range(hs) \ prioritySet)
        sortedPriority == SelectSeqBy(priorityColumns, Range(priority))
    IN  sortedPriority \o others

sortHeaders(hs) ==
    LET prioritySet    == Range(priorityColumns)
        priority       == SelectSeqBy(hs, prioritySet)
        others         == SelectSeqBy(hs, Range(hs) \ prioritySet)
        sortedPriority == SelectSeqBy(priorityColumns, Range(priority))
    IN  sortedPriority \o Sort(others)

\* renames[col] || col
RenamedCol(renames, col) ==
    IF Has(renames, col) /\ Get(renames, col) # "" THEN Get(renames, col) ELSE col

\* one row of generateTableData: the columns the row has, assigned in order
RECURSIVE FilteredRow(_, _, _)
FilteredRow(row, columns, renames) ==
    IF columns = <<>> THEN <<>>
    ELSE LET col  == columns[Len(columns)]
             rest == FilteredRow(row, SubSeq(columns, 1, Len(columns) - 1), renames)
         IN  IF Has(row, col)
             THEN Put(rest, RenamedCol(renames, col), formatValue(Get(row, col), col))
             ELSE rest

\* the table generateTableData stores with setTableData
generateTableData(data, columns, renames) ==
    [i \in 1..Len(data) |-> FilteredRow(data[i], columns, renames)]

-----------------------------------------------------------------------------
(* The environment: the files a user may pick, each with what Papa.parse     *)
(* delivers for it (header: true), and the names a user may type.           *)

\* how many parses may be in flight at once
MaxInFlight == 2

Entry(k, v) == [k |-> k, v |-> v]

\* Papa.parse results: `fields` is the file's header row and `data` its data
\* rows as objects keyed by the header row (a short row lacks the keys of its
\* missing fields); `failed` means the error callback is called instead
Parsed(file) ==
    CASE file = "a.csv" ->
           [failed |-> FALSE,
            fields |-> <<"Rental Yield", "Suburb $ Median">>,
            data |-> << ObjectOf(<<Entry("Rental Yield", Str(<<"0", ".", "0", "5">>)),
                                   Entry("Suburb $ Median", Str(<<"5", "2", "0", "0">>))>>),
                        ObjectOf(<<Entry("Rental Yield", Str(<<"0", ".", "0", "5">>)),
                                   Entry("Suburb $ Median", Str(<<"0">>))>>) >>]
      [] file = "b.csv" ->
           [failed |-> FALSE,
            fields |-> <<"Population">>,
            data |-> << ObjectOf(<<Entry("Population", Str(<<"1", "5", "0", "0", "0">>))>>),
                        ObjectOf(<<Entry("Population", Str(<<"x">>))>>) >>]
      [] file = "ragged.csv" ->
           [failed |-> FALSE,
            fields |-> <<"Suburb", "Population">>,
            data |-> << ObjectOf(<<Entry("Suburb", Str(<<"K", "e", "w">>)),
                                   Entry("Population", Str(<<"1", "5", "0", "0", "0">>))>>),
                        ObjectOf(<<Entry("Suburb", Str(<<"A", "y", "r">>))>>) >>]
      [] file = "empty.csv" ->
           [failed |-> FALSE, fields |-> <<"Suburb", "Population">>, data |-> <<>>]
      [] file = "bad.csv" -> [failed |-> TRUE, fields |-> <<>>, data |-> <<>>]

Files == {"a.csv", "b.csv", "empty.csv", "bad.csv"}

RenameInputs == {"", "Suburb $ Median"}

-----------------------------------------------------------------------------
(* The component's state and handlers. A handler runs to completion on the   *)
(* state of the latest render (React re-renders before the next event is     *)
(* handled), so each is one atomic step; the only suspension is Papa.parse,  *)
(* whose callbacks are steps of their own. `parsing` holds the files whose   *)
(* parse is in flight and `download` the file the last step handed to the    *)
(* browser (NoFile when it wrote none).                                      *)

Null == [isNull |-> TRUE, rows |-> <<>>]

Data(rows) == [isNull |-> FALSE, rows |-> rows]

NoFile == [name |-> "", header |-> <<>>, rows |-> <<>>, z |-> <<>>, cols |-> <<>>]

NoCall == [fn |-> "", args |-> <<>>]

\* the useState initial values; nothing is being parsed or written
InitSession ==
    /\ csvData = Null
    /\ headers = <<>>
    /\ selectedColumns = <<>>
    /\ columnRenames = <<>>
    /\ tableData = <<>>
    /\ fileName = ""
    /\ parsing = {}
    /\ download = NoFile

Init ==
    /\ InitSession
    /\ call = NoCall
    /\ ret = <<>>

\* the upload card is rendered while csvData is null
UploadShown == csvData.isNull

\* the column cards are rendered once csvData is set
ColumnsShown == ~csvData.isNull

\* the preview card, with the export and "Upload New File" buttons
PreviewShown == Len(tableData) > 0

\* handleFileUpload(file) with a file: the name is stored, the parse starts
handleFileUpload(file) ==
    /\ UploadShown
    /\ file \notin parsing
    /\ Cardinality(parsing) < MaxInFlight
    /\ fileName' = file
    /\ parsing' = parsing \cup {file}
    /\ download' = NoFile
    /\ UNCHANGED <<csvData, headers, selectedColumns, columnRenames, tableData, call, ret>>

\* handleFileUpload(null / undefined): the reset branch, reached from the
\* "Upload New File" button or from the file input with no file chosen
handleFileUploadNone ==
    /\ PreviewShown \/ UploadShown
    /\ csvData' = Null
    /\ headers' = <<>>
    /\ selectedColumns' = <<>>
    /\ columnRenames' = <<>>
    /\ tableData' = <<>>
    /\ fileName' = ""
    /\ download' = NoFile
    /\ UNCHANGED <<parsing, call, ret>>

\* results.data.map(row => ({...row, 'Median Weekly Rent': ...}))
WithCalculatedFields(data) ==
    [i \in 1..Len(data) |->
        Put(data[i], "Median Weekly Rent", calculateMedianWeeklyRent(data[i]))]

\* sortHeaders([...Object.keys(results.data[0] || {}), 'Median Weekly Rent'])
SortedHeadersOf(data) ==
    sortHeaders((IF data = <<>> THEN <<>> ELSE Keys(data[1])) \o <<"Median Weekly Rent">>)

DefaultSelectedColumns(sortedHeaders) ==
    SelectSeqBy(priorityColumns, Range(sortedHeaders))

InitialRenames(sortedHeaders) ==
    ObjectOf([i \in 1..Len(sortedHeaders) |-> Entry(sortedHeaders[i], sortedHeaders[i])])

\* the `complete` callback of Papa.parse
ParseComplete(file) ==
    /\ file \in parsing
    /\ ~Parsed(file).failed
    /\ LET dataWithCalculatedFields == WithCalculatedFields(Parsed(file).data)
           sortedHeaders            == SortedHeadersOf(Parsed(file).data)
           defaultSelectedColumns   == DefaultSelectedColumns(sortedHeaders)
           initialRenames           == InitialRenames(sortedHeaders)
       IN  /\ csvData' = Data(dataWithCalculatedFields)
           /\ headers' = sortedHeaders
           /\ selectedColumns' = defaultSelectedColumns
           /\ columnRenames' = initialRenames
           /\ tableData' = generateTableData(dataWithCalculatedFields,
                                             defaultSelectedColumns, initialRenames)
    /\ parsing' = parsing \ {file}
    /\ download' = NoFile
    /\ UNCHANGED <<fileName, call, ret>>

\* the `error` callback of Papa.parse: console.error only
ParseError(file) ==
    /\ file \in parsing
    /\ Parsed(file).failed
    /\ parsing' = parsing \ {file}
    /\ download' = NoFile
    /\ UNCHANGED <<csvData, headers, selectedColumns, columnRenames, tableData,
                   fileName, call, ret>>

handleColumnToggle(column) ==
    /\ ColumnsShown
    /\ Includes(headers, column)
    /\ LET newSelectedColumns ==
               IF Includes(selectedColumns, column)
               THEN Without(selectedColumns, column)
               ELSE Append(selectedColumns, column)
       IN  /\ selectedColumns' = newSelectedColumns
           /\ tableData' = generateTableData(csvData.rows, newSelectedColumns, columnRenames)
    /\ download' = NoFile
    /\ UNCHANGED <<csvData, headers, columnRenames, fileName, parsing, call, ret>>

\* the table regenerated from the rename map of the last render
handleColumnRename_stale(originalName, newName) ==
    /\ ColumnsShown
    /\ Includes(selectedColumns, originalName)
    /\ LET newRenames == Put(columnRenames, originalName, newName)
       IN  /\ columnRenames' = newRenames
           /\ tableData' = generateTableData(csvData.rows, selectedColumns, columnRenames)
    /\ download' = NoFile
    /\ UNCHANGED <<csvData, headers, selectedColumns, fileName, parsing, call, ret>>

handleColumnRename(originalName, newName) ==
    /\ ColumnsShown
    /\ Includes(selectedColumns, originalName)
    /\ LET newRenames == Put(columnRenames, originalName, newName)
       IN  /\ columnRenames' = newRenames
           /\ tableData' = generateTableData(csvData.rows, selectedColumns, newRenames)
    /\ download' = NoFile
    /\ UNCHANGED <<csvData, headers, selectedColumns, fileName, parsing, call, ret>>

\* items.splice(source, 1) then items.splice(destination, 0, item), 1-based
Moved(items, source, destination) ==
    LET removed == SubSeq(items, 1, source - 1) \o SubSeq(items, source + 1, Len(items))
    IN  SubSeq(removed, 1, destination - 1) \o <<items[source]>>
        \o SubSeq(removed, destination, Len(removed))

\* handleDragEnd with a destination (without one it returns at once)
handleDragEnd(source, destination) ==
    /\ ColumnsShown
    /\ source \in 1..Len(selectedColumns)
    /\ destination \in 1..Len(selectedColumns)
    /\ LET items == Moved(selectedColumns, source, destination)
       IN  /\ selectedColumns' = items
           /\ tableData' = generateTableData(csvData.rows, items, columnRenames)
    /\ download' = NoFile
    /\ UNCHANGED <<csvData, headers, columnRenames, fileName, parsing, call, ret>>

\* row[header] || ''
CellOrEmpty(row, header) ==
    IF Falsy(Get(row, header)) THEN Str(<<>>) ELSE Get(row, header)

\* the <th> cells and the <td> cells, row by row, of the document written
HtmlDocument(table) ==
    LET tableHeaders == Keys(table[1])
    IN  [name   |-> "formatted-table.html",
         header |-> tableHeaders,
         rows   |-> [r \in 1..Len(table) |->
                        [c \in 1..Len(tableHeaders) |-> CellOrEmpty(table[r], tableHeaders[c])]],
         z      |-> <<>>,
         cols   |-> <<>>]

\* exportTableHTML, from the "Export HTML" button of the preview card
exportTableHTML ==
    /\ PreviewShown
    /\ download' = (IF Len(tableData) = 0 THEN NoFile ELSE HtmlDocument(tableData))
    /\ UNCHANGED <<session, parsing, call, ret>>

\* Object.keys(columnRenames).find(key => columnRenames[key] === header) || header
OriginalColumn(renames, header) ==
    LET hits == {i \in 1..Len(renames) : renames[i].v = header}
        key  == renames[CHOOSE i \in hits : \A j \in hits : i <= j].k
    IN  IF hits = {} \/ key = "" THEN header ELSE key

\* the number format the formatting loop gives a data cell ("" = none set)
FormatCode(originalColumn) ==
    IF Includes(percentageFields, originalColumn) THEN "0.00%"
    ELSE IF Includes(currencyFields, originalColumn) THEN "$#,##0"
    ELSE IF Includes(numberFields, originalColumn) THEN "#,##0"
    ELSE ""

Max(a, b) == IF a >= b THEN a ELSE b

\* the sheet "Property Data" of the workbook written: header row, data rows
\* of raw values, the cells' number formats and the column widths
Workbook(table, renames) ==
    LET tableHeaders == Keys(table[1])
        orig(c)      == OriginalColumn(renames, tableHeaders[c])
    IN  [name   |-> "formatted-table.xlsx",
         header |-> tableHeaders,
         rows   |-> [r \in 1..Len(table) |->
                        [c \in 1..Len(tableHeaders) |->
                            getRawValue(Get(table[r], tableHeaders[c]), tableHeaders[c], orig(c))]],
         z      |-> [r \in 1..Len(table) |->
                        [c \in 1..Len(tableHeaders) |-> FormatCode(orig(c))]],
         cols   |-> [c \in 1..Len(tableHeaders) |-> Max(Len(Spell(tableHeaders[c])), 15)]]

\* exportTableExcel, from the "Export Excel" button of the preview card. With
\* no column the sheet has no cell, and whether the xlsx library then gives
\* the sheet a range for decode_range to read depends on its version: the
\* export either throws before writing or writes the empty sheet.
exportTableExcel ==
    /\ PreviewShown
    /\ \/ download' = (IF Len(tableData) = 0 THEN NoFile
                       ELSE Workbook(tableData, columnRenames))
       \/ /\ Len(tableData) > 0
          /\ Keys(tableData[1]) = <<>>
          /\ download' = NoFile
    /\ UNCHANGED <<session, parsing, call, ret>>

Next ==
    \/ \E file \in Files : handleFileUpload(file)
    \/ handleFileUploadNone
    \/ \E file \in Files : ParseComplete(file)
    \/ \E file \in Files : ParseError(file)
    \/ \E column \in Range(headers) : handleColumnToggle(column)
    \/ \E originalName \in Range(selectedColumns), newName \in RenameInputs :
          handleColumnRename(originalName, newName)
    \/ \E source, destination \in 1..Len(selectedColumns) : handleDragEnd(source, destination)
    \/ exportTableHTML
    \/ exportTableExcel

Spec == Init /\ [][Next]_vars

-----------------------------------------------------------------------------
(* The pure helpers on their own: a call is drawn from bounded sets of the   *)
(* arguments the component can pass, and the helper is applied to it. `ret`  *)
(* collects the results: for a cell, formatValue's display value and then    *)
(* getRawValue's export value of that display value.                         *)

MaxLen == 3

MaxHeaders == 3

MaxRent == 3

Alphabet == {"0", "1", "5", "-", ".", ",", "$", "x"}

StringsUpTo(n) == UNION {[1..k -> Alphabet] : k \in 0..n}

\* raw cell strings of a file, with two long enough to be grouped
RawStrings ==
    StringsUpTo(MaxLen) \cup {<<"1", "5", "0", "0", "0">>, <<"-", "5", "2", "0", "0">>}

\* values calculateMedianWeeklyRent can return
Rents == {Num(n, 0) : n \in 0..MaxRent} \cup {Num(1500, 0)}

\* file columns of each kind (percentage, currency, count, plain)
CellColumns == {"Rental Yield", "Suburb $ Median", "Population", "State"}

\* a cell of a file column holds a string; one of the derived column a number
CellCalls ==
    {[fn |-> "cell", args |-> <<Str(s), col>>] : s \in RawStrings, col \in CellColumns}
    \cup {[fn |-> "cell", args |-> <<n, "Median Weekly Rent">>] : n \in Rents}

MaxRentLen == 2

RentAlphabet == {"0", "5", "-", ".", "x"}

\* short price and yield fields of a parsed row
RentStrings == UNION {[1..k -> RentAlphabet] : k \in 0..MaxRentLen}

RentRow(p, y) ==
    ObjectOf(<<Entry("Suburb $ Median", Str(p)), Entry("Rental Yield", Str(y))>>)

\* a row with both fields, with one of them (a short row), or with neither;
\* then a listing of 650000 at 0.04, the same with a negative field, and a
\* weekly rent halfway between two integers (78 / 52 = 1.5)
RentRows ==
    {RentRow(p, y) : p \in RentStrings, y \in RentStrings}
    \cup {ObjectOf(<<Entry("Suburb $ Median", Str(p))>>) : p \in RentStrings}
    \cup {ObjectOf(<<Entry("Rental Yield", Str(y))>>) : y \in RentStrings}
    \cup {<<>>,
          RentRow(<<"6", "5", "0", "0", "0", "0">>, <<"0", ".", "0", "4">>),
          RentRow(<<"6", "5", "0", "0", "0", "0">>, <<"-", "0", ".", "0", "4">>),
          RentRow(<<"-", "6", "5", "0", "0", "0", "0">>, <<"0", ".", "0", "4">>),
          RentRow(<<"7", "8">>, <<"1">>)}

RentCalls == {[fn |-> "calculateMedianWeeklyRent", args |-> <<row>>] : row \in RentRows}

DistinctSeqs(S, n) == {s \in UNION {[1..k -> S] : k \in 0..n} : IsDistinct(s)}

HeaderNames == {"State", "Suburb", "Rental Yield", "Median Weekly Rent",
                "Zeta", "Alpha", "alpha", "10", "2"}

\* Object.keys of a first row with the given header row
KeysOfHeaderRow(hs) == Keys(ObjectOf([i \in 1..Len(hs) |-> Entry(hs[i], Str(<<>>))]))

SortCalls ==
    {[fn |-> "sortHeaders",
      args |-> <<KeysOfHeaderRow(hs) \o <<"Median Weekly Rent">>>>] :
        hs \in DistinctSeqs(HeaderNames, MaxHeaders)}

DisplayNames == {"", "1", "2", "Price"}

\* the rename maps a session can hold for the given headers
RenameMaps(hs) ==
    {ObjectOf([i \in 1..Len(hs) |-> Entry(hs[i], f[i])]) :
        f \in {g \in [1..Len(hs) -> DisplayNames \cup Range(hs)] :
                  \A i \in 1..Len(hs) : g[i] \in DisplayNames \cup {hs[i]}}}

ProjectFiles == {"a.csv", "ragged.csv"}

ProjectCalls ==
    UNION {{[fn |-> "generateTableData",
             args |-> <<WithCalculatedFields(Parsed(file).data), columns, renames>>] :
               columns \in DistinctSeqs(Range(SortedHeadersOf(Parsed(file).data)), MaxHeaders),
               renames \in RenameMaps(SortedHeadersOf(Parsed(file).data))} :
            file \in ProjectFiles}

InitCalls ==
    /\ InitSession
    /\ \/ call \in CellCalls
       \/ call \in SortCalls
       \/ call \in ProjectCalls
       \/ call \in RentCalls
    /\ ret = <<>>

CallFormatValue ==
    /\ call.fn = "cell"
    /\ ret = <<>>
    /\ ret' = <<formatValue(call.args[1], call.args[2])>>
    /\ UNCHANGED <<session, parsing, download, call>>

\* the export's getRawValue(row[header], header, originalColumn) of that cell
CallGetRawValue ==
    /\ call.fn = "cell"
    /\ Len(ret) = 1
    /\ ret' = Append(ret, getRawValue(ret[1], call.args[2], call.args[2]))
    /\ UNCHANGED <<session, parsing, download, call>>

CallSortHeaders ==
    /\ call.fn = "sortHeaders"
    /\ ret = <<>>
    /\ ret' = <<sortHeaders(call.args[1])>>
    /\ UNCHANGED <<session, parsing, download, call>>

CallGenerateTableData ==
    /\ call.fn = "generateTableData"
    /\ ret = <<>>
    /\ ret' = <<generateTableData(call.args[1], call.args[2], call.args[3])>>
    /\ UNCHANGED <<session, parsing, download, call>>

CallCalculateMedianWeeklyRent ==
    /\ call.fn = "calculateMedianWeeklyRent"
    /\ ret = <<>>
    /\ ret' = <<calculateMedianWeeklyRent(call.args[1])>>
    /\ UNCHANGED <<session, parsing, download, call>>

NextCalls ==
    \/ CallFormatValue
    \/ CallGetRawValue
    \/ CallSortHeaders
    \/ CallGenerateTableData
    \/ CallCalculateMedianWeeklyRent

Calls == InitCalls /\ [][NextCalls]_vars

-----------------------------------------------------------------------------
(* Properties of the session (specification Spec).                           *)

\* renames[c] || c of the selected columns are pairwise different
SelectedNamesDistinct ==
    \A i, j \in 1..Len(selectedColumns) :
        i # j => RenamedCol(columnRenames, selectedColumns[i])
                   # RenamedCol(columnRenames, selectedColumns[j])

\* C1: in every reachable state the stored table is the projection of the
\* current rows under the current selection and the current rename map (and
\* is empty while no file is loaded): it is never stale.
C1_TableDataIsCurrent ==
    tableData = IF csvData.isNull THEN <<>>
                ELSE generateTableData(csvData.rows, selectedColumns, columnRenames)

\* b.csv was picked before a.csv, both parses completed with b.csv's last, and
\* the selection and the names were edited since
C1_EditedAfterOutOfOrderUploads ==
    /\ fileName = "a.csv"
    /\ parsing = {}
    /\ csvData = Data(WithCalculatedFields(Parsed("b.csv").data))
    /\ selectedColumns = <<"Population", "Median Weekly Rent">>
    /\ RenamedCol(columnRenames, "Population") = "Suburb $ Median"
    /\ Len(tableData) = 2

\* C2: in a workbook written while the selected columns' display names are
\* pairwise different, the cells under display name d are
\* getRawValue(display value, kind of c) with the format code of c, where c
\* is the selected column displayed as d.
C2_WorkbookCellsUseSelectedColumn ==
    (download.name = "formatted-table.xlsx" /\ SelectedNamesDistinct) =>
        \A c \in 1..Len(download.header) :
            LET d   == download.header[c]
                col == CHOOSE x \in Range(selectedColumns) : RenamedCol(columnRenames, x) = d
            IN  \A r \in 1..Len(download.rows) :
                    /\ download.rows[r][c] = getRawValue(Get(tableData[r], d), d, col)
                    /\ download.z[r][c] = FormatCode(col)

\* C3: in every reachable state no two selected columns have the same
\* display name.
C3_SelectedRenamesInjective == SelectedNamesDistinct

\* C4: a step in which a file whose parse fails is picked, or in which its
\* failure is delivered, changes none of csvData, headers, selectedColumns,
\* columnRenames, tableData and fileName.
C4_FailedUploadChangesNothing ==
    [][\A file \in Files :
          (Parsed(file).failed /\ (file \in parsing) # (file \in parsing'))
              => UNCHANGED session]_vars

\* C5: every file an export writes has at least one data row and at least
\* one column.
C5_NoEmptyExport ==
    download # NoFile => Len(download.rows) >= 1 /\ Len(download.header) >= 1

\* C8: the step in which a file's parse completes leaves a state that depends
\* on that file alone: headers are the ordered header row of the file plus
\* the derived column, the selection is the priority columns among them in
\* priority order, the rename map is the identity on exactly the headers, the
\* rows are the file's rows with the derived column, the table their projection.
C8_CompletedUploadIsFullReset ==
    [][\A file \in Files :
          (file \in parsing /\ file \notin parsing' /\ ~Parsed(file).failed) =>
              /\ headers' = sortHeaders(Parsed(file).fields \o <<"Median Weekly Rent">>)
              /\ selectedColumns' = SelectSeqBy(priorityColumns, Range(headers'))
              /\ Keys(columnRenames') = headers'
              /\ \A i \in 1..Len(columnRenames') : columnRenames'[i].v = columnRenames'[i].k
              /\ csvData' = Data(WithCalculatedFields(Parsed(file).data))
              /\ tableData' = generateTableData(csvData'.rows, selectedColumns', columnRenames')
      ]_vars

\* C13: in every reachable state the user can start over: the upload card
\* (with the file input and the drop area) or the preview card's
\* "Upload New File" button is rendered.
C13_CanStartOver == UploadShown \/ PreviewShown

-----------------------------------------------------------------------------
(* Properties of the pure helpers (specification Calls).                     *)

\* the classifier the if-chains of formatValue and getRawValue implement
FieldKind(column) ==
    IF Includes(percentageFields, column) THEN "percentage"
    ELSE IF Includes(currencyFields, column) THEN "currency"
    ELSE IF Includes(numberFields, column) THEN "count"
    ELSE "plain"

\* the names of the present selected columns, each kept where it first occurs
RECURSIVE FirstOccurrences(_)
FirstOccurrences(s) ==
    IF s = <<>> THEN <<>>
    ELSE LET front == FirstOccurrences(SubSeq(s, 1, Len(s) - 1))
         IN  IF Includes(front, s[Len(s)]) THEN front ELSE Append(front, s[Len(s)])

\* C6: generateTableData returns one row per input row, in input order, and
\* the keys of every output row are the display names of the selected columns
\* the row has, in the order of the selection (a name two columns share
\* counted once, where it first occurs, with the later column's value).
C6_ProjectionKeepsOrder ==
    (call.fn = "generateTableData" /\ Len(ret) = 1) =>
        LET data    == call.args[1]
            columns == call.args[2]
            renames == call.args[3]
            table   == ret[1]
        IN  /\ Len(table) = Len(data)
            /\ \A r \in 1..Len(data) :
                 LET present == SelectSeqBy(columns, Range(Keys(data[r])))
                     names   == [i \in 1..Len(present) |-> RenamedCol(renames, present[i])]
                 IN  /\ Keys(table[r]) = FirstOccurrences(names)
                     /\ \A i \in 1..Len(present) :
                          (\A j \in (i + 1)..Len(present) : names[j] # names[i]) =>
                              Get(table[r], names[i])
                                = formatValue(Get(data[r], present[i]), present[i])

PriorityIndex(name) == CHOOSE i \in 1..Len(priorityColumns) : priorityColumns[i] = name

\* C7: sortHeaders returns each name of its argument exactly once, the
\* priority columns first in the priority list's order, then the other names
\* in ascending code-unit order.
C7_SortHeadersOrder ==
    (call.fn = "sortHeaders" /\ Len(ret) = 1) =>
        LET H      == call.args[1]
            sorted == ret[1]
            P      == Range(priorityColumns)
        IN  /\ Range(sorted) = Range(H)
            /\ IsDistinct(sorted)
            /\ \A i, j \in 1..Len(sorted) :
                 i < j =>
                   /\ sorted[i] \notin P => sorted[j] \notin P
                   /\ (sorted[i] \in P /\ sorted[j] \in P) =>
                         PriorityIndex(sorted[i]) < PriorityIndex(sorted[j])
                   /\ (sorted[i] \notin P /\ sorted[j] \notin P) =>
                         NameLess(sorted[i], sorted[j])

\* a file with its columns in an order sortHeaders has to change
C7_SortedSomething ==
    /\ call.fn = "sortHeaders"
    /\ call.args[1] = <<"Zeta", "Suburb", "Alpha", "Median Weekly Rent">>
    /\ ret = << <<"Suburb", "Median Weekly Rent", "Alpha", "Zeta">> >>

\* an integer raw value: a number without fraction, or a string of an
\* optional minus sign and digits
IsIntegerRaw(v) ==
    \/ v.t = "number" /\ v.e = 0
    \/ /\ v.t = "string"
       /\ LET ds == IF v.s # <<>> /\ Head(v.s) = "-" THEN Tail(v.s) ELSE v.s
          IN  ds # <<>> /\ \A i \in 1..Len(ds) : ds[i] \in Digit

IntegerOf(v) ==
    IF v.t = "number" THEN v
    ELSE IF Head(v.s) = "-" THEN Num(-NatOf(Tail(v.s)), 0) ELSE Num(NatOf(v.s), 0)

\* C9: for an integer raw value of a currency or count column,
\* getRawValue(formatValue(v)) is the number v.
C9_IntegerRoundTrip ==
    (/\ call.fn = "cell"
     /\ Len(ret) = 2
     /\ FieldKind(call.args[2]) \in {"currency", "count"}
     /\ IsIntegerRaw(call.args[1]))
        => ret[2] = IntegerOf(call.args[1])

\* what getRawValue hands to parseFloat for a column of the given kind
Stripped(display, kind) ==
    CASE kind = "percentage" -> RemoveFirst(display, "%")
      [] kind = "currency" -> RemoveAll(display, {"$", ","})
      [] kind = "count" -> RemoveAll(display, {","})

ExportsNumber(display, kind, raw) ==
    /\ raw.t = "number"
    /\ IsNaN(ParseFloatStr(Stripped(display.s, kind))) => raw = Num(0, 0)

\* C10 as stated: for a percentage, currency or count column getRawValue
\* returns a number for every display value, 0 when it does not parse.
C10_ExportAlwaysNumber ==
    (/\ call.fn = "cell"
     /\ Len(ret) = 2
     /\ FieldKind(call.args[2]) \in {"percentage", "currency", "count"})
        => ExportsNumber(ret[1], FieldKind(call.args[2]), ret[2])

\* C10 as amended: for a percentage, currency or count column getRawValue
\* returns the empty string for the empty display value, and for every other
\* display value a number, 0 when it does not parse.
C10_ExportNumberUnlessEmpty ==
    (/\ call.fn = "cell"
     /\ Len(ret) = 2
     /\ FieldKind(call.args[2]) \in {"percentage", "currency", "count"})
        => IF ret[1] = Str(<<>>) THEN ret[2] = Str(<<>>)
           ELSE ExportsNumber(ret[1], FieldKind(call.args[2]), ret[2])

\* an unparseable display value of a percentage column exported as 0
C10_UnparseableExportedAsZero ==
    /\ call.fn = "cell"
    /\ call.args[2] = "Rental Yield"
    /\ ret = <<Str(<<"x", "5">>), Num(0, 0)>>

\* a field read as a positive number: parseFloat finds a number above zero
\* (a missing field is undefined, which parses to NaN)
IsPositive(field) == parseFloat(field).t = "number" /\ parseFloat(field).m > 0

\* n is the integer nearest to p * y / 52, the upper one of two equally near
IsNearestWeekly(n, p, y) ==
    LET a == p.m * y.m
        d == 52 * Pow10(p.e + y.e)
    IN  /\ n.t = "number"
        /\ n.e = 0
        /\ 2 * (n.m * d - a) <= d
        /\ 2 * (a - n.m * d) < d

\* C11: calculateMedianWeeklyRent returns round(price * yield / 52) when the
\* parsed 'Suburb $ Median' and the parsed 'Rental Yield' are both strictly
\* positive and 0 in every other case (missing, unparseable, zero, negative);
\* the result is never negative.
C11_WeeklyRentContract ==
    (call.fn = "calculateMedianWeeklyRent" /\ Len(ret) = 1) =>
        LET price    == Get(call.args[1], "Suburb $ Median")
            yield    == Get(call.args[1], "Rental Yield")
        IN  /\ ret[1].t = "number"
            /\ ret[1].m >= 0
            /\ IF IsPositive(price) /\ IsPositive(yield)
               THEN IsNearestWeekly(ret[1], parseFloat(price), parseFloat(yield))
               ELSE ret[1] = Num(0, 0)

\* the listing of 650000 at a yield of 0.04: 26000 a year, 500 a week
C11_ListingRentComputed ==
    /\ call.fn = "calculateMedianWeeklyRent"
    /\ Get(call.args[1], "Suburb $ Median") = Str(<<"6", "5", "0", "0", "0", "0">>)
    /\ Get(call.args[1], "Rental Yield") = Str(<<"0", ".", "0", "4">>)
    /\ ret = <<Num(500, 0)>>

\* the currency columns a file can have
NativeCurrencyColumns == {"Suburb $ Median", "Median Income"}

\* the display value and the export value of a cell of a file's currency
\* column holding the text of the number n
NativeCurrencyCell(n, column) ==
    LET display == formatValue(Str(toString(n)), column)
    IN  <<display, getRawValue(display, column, column)>>

\* C12: for every value calculateMedianWeeklyRent computes, 0 included, the
\* 'Median Weekly Rent' cell has the display value and the export value that
\* a cell of a file's currency column holding the same amount has.
C12_DerivedCellLikeNativeCurrency ==
    (/\ call.fn = "cell"
     /\ Len(ret) = 2
     /\ call.args[2] = "Median Weekly Rent")
        => \A column \in NativeCurrencyColumns :
               ret = NativeCurrencyCell(call.args[1], column)

====
